---- MODULE Spec2Model ----
(***************************************************************************)
(* Verification model of the portfolio site's browser-side logic:          *)
(*   - the service worker's fetch dispatch and cache strategies (sw.js),   *)
(*   - I18nManager (locale loading, translate, setLanguage),               *)
(*   - AnalyticsManager (consent, GA4 loading, event tracking),            *)
(*   - the build script (asset hashing and index.html rewriting),          *)
(*   - FormHandler (validation and submission of the contact form).        *)
(* Text (URLs, paths, field values) is modelled as sequences of            *)
(* one-character strings so that prefix, suffix and substring tests are    *)
(* computed as the code computes them.                                     *)
(***************************************************************************)
EXTENDS Integers, Sequences, FiniteSets, TLC

\* ------------------------------------------------------------------------
\* Bounds of the model
\* ------------------------------------------------------------------------
\* fetch events handled by the service worker in one run
MaxRequests == 2
\* setLanguage calls made in one run (init's call included)
MaxCalls == 2
\* calls made to the AnalyticsManager (and page reloads) in one run
MaxGaOps == 5
\* runs of the build script in one run of the model
MaxBuilds == 2
\* submit events of the contact form in one run
MaxSubmits == 2
\* new service worker versions published while the page is open
MaxUpdates == 2
\* open, close and gallery navigation events of the project modal
MaxModalOps == 7

\* ------------------------------------------------------------------------
\* Text helpers (String.prototype methods used by the code)
\* ------------------------------------------------------------------------
StartsWith(s, p) == Len(p) <= Len(s) /\ SubSeq(s, 1, Len(p)) = p

EndsWith(s, p) == Len(p) <= Len(s) /\ SubSeq(s, Len(s) - Len(p) + 1, Len(s)) = p

Includes(s, p) == \E i \in 1..(Len(s) - Len(p) + 1) : SubSeq(s, i, i + Len(p) - 1) = p

\* index of the first occurrence of character c at or after position from, 0 if none
IndexOfFrom(s, c, from) ==
  IF \E i \in from..Len(s) : s[i] = c
    THEN CHOOSE i \in from..Len(s) : s[i] = c /\ \A j \in from..(i - 1) : s[j] # c
    ELSE 0

\* index of the last occurrence of character c, 0 if none
LastIndexOf(s, c) ==
  IF \E i \in 1..Len(s) : s[i] = c
    THEN CHOOSE i \in 1..Len(s) : s[i] = c /\ \A j \in (i + 1)..Len(s) : s[j] # c
    ELSE 0

\* ========================================================================
\* Service worker
\* ========================================================================
CACHE_NAME == "devportfolio-v2.1.0"
CACHE_NAME_DYNAMIC == "devportfolio-dynamic-v2.1.0"
CACHE_NAME_IMAGES == "devportfolio-images-v2.1.0"

CacheNames == {CACHE_NAME, CACHE_NAME_DYNAMIC, CACHE_NAME_IMAGES}

STATIC_ASSETS == <<
  <<"/">>,
  <<"/","i","n","d","e","x",".","h","t","m","l">>,
  <<"/","o","f","f","l","i","n","e",".","h","t","m","l">>,
  <<"/","m","a","n","i","f","e","s","t",".","j","s","o","n">>,
  <<"/","c","s","s","/","t","h","e","m","e","s",".","c","s","s">>,
  <<"/","c","s","s","/","a","n","i","m","a","t","i","o","n","s",".","c","s","s">>,
  <<"/","c","s","s","/","s","t","y","l","e",".","c","s","s">>,
  <<"/","c","s","s","/","r","e","s","p","o","n","s","i","v","e","-","f","i","x","e","s",".","c","s","s">>,
  <<"/","j","s","/","a","p","p",".","j","s">>,
  <<"/","j","s","/","i","1","8","n",".","j","s">>,
  <<"/","j","s","/","a","n","i","m","a","t","i","o","n","-","c","o","n","t","r","o","l","l","e","r",".","j","s">>,
  <<"/","j","s","/","l","a","z","y","-","l","o","a","d","e","r",".","j","s">>,
  <<"/","j","s","/","p","r","o","j","e","c","t","-","d","a","t","a",".","j","s">>,
  <<"/","j","s","/","p","r","o","j","e","c","t","-","m","o","d","a","l",".","j","s">>,
  <<"/","j","s","/","f","o","r","m","-","h","a","n","d","l","e","r",".","j","s">>,
  <<"/","j","s","/","p","e","r","f","o","r","m","a","n","c","e","-","m","o","n","i","t","o","r",".","j","s">>,
  <<"/","j","s","/","p","o","l","y","f","i","l","l","s",".","j","s">>,
  <<"/","j","s","/","c","o","n","f","i","g",".","j","s">>,
  <<"/","j","s","/","a","n","a","l","y","t","i","c","s",".","j","s">>,
  <<"/","i","m","g","/","f","a","v","i","c","o","n",".","s","v","g">>,
  <<"/","i","m","g","/","p","r","o","f","i","l","e",".","s","v","g">> >>

DYNAMIC_ASSETS == <<
  <<"/","l","o","c","a","l","e","s","/","p","t","-","B","R",".","j","s","o","n">>,
  <<"/","l","o","c","a","l","e","s","/","e","n","-","U","S",".","j","s","o","n">>,
  <<"/","l","o","c","a","l","e","s","/","e","s","-","E","S",".","j","s","o","n">> >>

EXTERNAL_ASSETS == <<
  <<"h","t","t","p","s",":","/","/","c","d","n","j","s",".","c","l","o","u","d","f","l","a","r","e",".","c","o","m","/","a","j","a","x","/","l","i","b","s","/","f","o","n","t","-","a","w","e","s","o","m","e","/","6",".","4",".","0","/","c","s","s","/","a","l","l",".","m","i","n",".","c","s","s">>,
  <<"h","t","t","p","s",":","/","/","f","o","n","t","s",".","g","o","o","g","l","e","a","p","i","s",".","c","o","m","/","c","s","s","2","?","f","a","m","i","l","y","=","P","o","p","p","i","n","s",":","w","g","h","t","@","3","0","0",";","4","0","0",";","5","0","0",";","6","0","0",";","7","0","0","&","f","a","m","i","l","y","=","R","o","b","o","t","o","+","M","o","n","o",":","w","g","h","t","@","3","0","0",";","4","0","0",";","5","0","0",";","6","0","0","&","d","i","s","p","l","a","y","=","s","w","a","p">> >>

MAX_CACHE_SIZE == [images |-> 50, dynamic |-> 30]

\* extensions of the image rule's regular expression /\.(jpg|jpeg|png|gif|svg|webp)$/
ImageExtensions == {<<".","j","p","g">>, <<".","j","p","e","g">>, <<".","p","n","g">>, <<".","g","i","f">>, <<".","s","v","g">>, <<".","w","e","b","p">>}

\* origin the worker is registered on (scope of relative URLs)
Origin == <<"h","t","t","p","s",":","/","/","c","a","r","e","c","a",".","i","s","-","a",".","d","e","v">>

Range(seq) == {seq[i] : i \in 1..Len(seq)}

\* new URL(href).protocol: the scheme up to and including the first ':'
UrlProtocol(href) == SubSeq(href, 1, IndexOfFrom(href, ":", 1))

\* new URL(href).pathname: from the first '/' after the authority up to '?' or '#'
UrlPathname(href) ==
  LET afterScheme == IndexOfFrom(href, ":", 1) + 3
      slash == IndexOfFrom(href, "/", afterScheme)
      q == IndexOfFrom(href, "?", afterScheme)
      h == IndexOfFrom(href, "#", afterScheme)
      stops == {i \in {q, h} : i # 0}
      stop == IF stops = {} THEN Len(href) + 1
              ELSE CHOOSE i \in stops : \A j \in stops : i <= j
  IN IF slash = 0 \/ slash >= stop THEN <<"/">> ELSE SubSeq(href, slash, stop - 1)

\* URLs the worker precaches at install: the static list, resolved against the
\* origin, and the external list
PrecachedUrls ==
  [i \in 1..Len(STATIC_ASSETS) |-> Origin \o STATIC_ASSETS[i]] \o EXTERNAL_ASSETS

\* The URLs occurring in a run.  The state holds a URL as its index in this
\* pool; Href gives its text, which is what the code inspects.
UrlPool ==
  PrecachedUrls \o <<
    Origin \o <<"/","i","n","d","e","x",".","h","t","m","l","?","v","=","2">>,
    Origin \o <<"/","l","o","c","a","l","e","s","/","e","n","-","U","S",".","j","s","o","n">>,
    Origin \o <<"/","i","m","g","/","a","b","o","u","t",".","s","v","g">>,
    Origin \o <<"/","p","h","o","t","o">>,
    Origin \o <<"/","a","p","i","/","p","h","o","t","o",".","p","n","g">>,
    Origin \o <<"/","a","p","i","/","d","a","t","a">>,
    Origin \o <<"/","b","l","o","g">>,
    <<"c","h","r","o","m","e","-","e","x","t","e","n","s","i","o","n",":","/","/","a","b","c","d","e","f","/","c","o","n","t","e","n","t",".","j","s">> >>

Href(u) == UrlPool[u]

UrlId(href) == CHOOSE u \in DOMAIN UrlPool : UrlPool[u] = href

OFFLINE_URL == UrlId(Origin \o <<"/","o","f","f","l","i","n","e",".","h","t","m","l">>)

\* the fetch events the model delivers to the worker
Requests == {
  [url |-> UrlId(Origin \o <<"/">>), method |-> "GET", destination |-> "document", mode |-> "navigate"],
  [url |-> UrlId(Origin \o <<"/","i","n","d","e","x",".","h","t","m","l","?","v","=","2">>), method |-> "GET", destination |-> "document", mode |-> "navigate"],
  [url |-> UrlId(Origin \o <<"/">>), method |-> "POST", destination |-> "", mode |-> "cors"],
  [url |-> UrlId(Origin \o <<"/","i","m","g","/","p","r","o","f","i","l","e",".","s","v","g">>), method |-> "GET", destination |-> "image", mode |-> "no-cors"],
  [url |-> UrlId(EXTERNAL_ASSETS[1]), method |-> "GET", destination |-> "style", mode |-> "no-cors"],
  [url |-> UrlId(Origin \o <<"/","l","o","c","a","l","e","s","/","e","n","-","U","S",".","j","s","o","n">>), method |-> "GET", destination |-> "", mode |-> "cors"],
  [url |-> UrlId(Origin \o <<"/","i","m","g","/","a","b","o","u","t",".","s","v","g">>), method |-> "GET", destination |-> "", mode |-> "cors"],
  [url |-> UrlId(Origin \o <<"/","p","h","o","t","o">>), method |-> "GET", destination |-> "image", mode |-> "no-cors"],
  [url |-> UrlId(Origin \o <<"/","a","p","i","/","p","h","o","t","o",".","p","n","g">>), method |-> "GET", destination |-> "", mode |-> "cors"],
  [url |-> UrlId(Origin \o <<"/","a","p","i","/","d","a","t","a">>), method |-> "GET", destination |-> "", mode |-> "cors"],
  [url |-> UrlId(Origin \o <<"/","b","l","o","g">>), method |-> "GET", destination |-> "document", mode |-> "navigate"],
  [url |-> UrlId(<<"c","h","r","o","m","e","-","e","x","t","e","n","s","i","o","n",":","/","/","a","b","c","d","e","f","/","c","o","n","t","e","n","t",".","j","s">>), method |-> "GET", destination |-> "script", mode |-> "no-cors"] }

\* outcomes of fetch(request): a response with status 200, another status, or a throw
FetchOutcomes == {"ok200", "other", "throw"}

NoResponse == [src |-> "none"]

VARIABLES
  caches,       \* Cache Storage: cache name -> sequence of stored request URLs, oldest first
  handlers,     \* one record per fetch event delivered so far
  pendingPuts,  \* cache.put calls issued but not yet settled (they are not awaited)
  pendingLimits \* limitCacheSize calls issued but not yet run (they are not awaited)

swVars == <<caches, handlers, pendingPuts, pendingLimits>>

\* the strategy the fetch listener selects: <<strategy, cache name>>
StrategySwapped(request) ==
  LET href == Href(request.url)
      pathname == UrlPathname(href)
  IN IF request.method # "GET" THEN <<"none", "">>
     ELSE IF ~StartsWith(UrlProtocol(href), <<"h","t","t","p">>) THEN <<"none", "">>
     ELSE IF (\E a \in Range(STATIC_ASSETS) : pathname = a)
             \/ (\E a \in Range(EXTERNAL_ASSETS) : href = a)
       THEN <<"cacheFirst", CACHE_NAME>>
     ELSE IF \E a \in Range(DYNAMIC_ASSETS) : pathname = a
       THEN <<"networkFirst", CACHE_NAME_DYNAMIC>>
     ELSE IF Includes(pathname, <<"/","a","p","i","/">>) \/ request.method = "POST"
       THEN <<"networkOnly", "">>
     ELSE IF request.destination = "image"
             \/ (\E e \in ImageExtensions : EndsWith(pathname, e))
       THEN <<"cacheFirst", CACHE_NAME_IMAGES>>
     ELSE <<"networkFirst", CACHE_NAME_DYNAMIC>>

Strategy(request) ==
  LET href == Href(request.url)
      pathname == UrlPathname(href)
  IN IF request.method # "GET" THEN <<"none", "">>
     ELSE IF ~StartsWith(UrlProtocol(href), <<"h","t","t","p">>) THEN <<"none", "">>
     ELSE IF (\E a \in Range(STATIC_ASSETS) : pathname = a)
             \/ (\E a \in Range(EXTERNAL_ASSETS) : href = a)
       THEN <<"cacheFirst", CACHE_NAME>>
     ELSE IF \E a \in Range(DYNAMIC_ASSETS) : pathname = a
       THEN <<"networkFirst", CACHE_NAME_DYNAMIC>>
     ELSE IF request.destination = "image"
             \/ (\E e \in ImageExtensions : EndsWith(pathname, e))
       THEN <<"cacheFirst", CACHE_NAME_IMAGES>>
     ELSE IF Includes(pathname, <<"/","a","p","i","/">>) \/ request.method = "POST"
       THEN <<"networkOnly", "">>
     ELSE <<"networkFirst", CACHE_NAME_DYNAMIC>>

\* caches.match(url): a stored response for the URL in any cache
CachesMatch(url) == \E n \in CacheNames : url \in Range(caches[n])

\* cache.put: the entry for the URL is replaced and becomes the newest
CachePut(keys, url) == SelectSeq(keys, LAMBDA k : k # url) \o <<url>>

\* limitCacheSize: drop the oldest entries beyond maxSize
LimitKeys(keys, maxSize) ==
  IF Len(keys) > maxSize THEN SubSeq(keys, Len(keys) - maxSize + 1, Len(keys)) ELSE keys

\* state of the caches after a successful install (cache.addAll of both lists)
InstalledCaches ==
  [n \in CacheNames |->
     IF n = CACHE_NAME
       THEN [i \in 1..Len(PrecachedUrls) |-> UrlId(PrecachedUrls[i])]
       ELSE <<>>]

\* the listener's choice for each request of the model
Dispatch == [r \in Requests |-> Strategy(r)]

\* the worker is installed and active with the given caches; no fetch event
\* has been handled
SWStart(installed) ==
  /\ caches = installed
  /\ handlers = <<>>
  /\ pendingPuts = {}
  /\ pendingLimits = {}

SWInit == SWStart(InstalledCaches)

\* the caches of a worker that has been serving pages for a while: the image
\* and dynamic caches hold MAX_CACHE_SIZE entries of URLs fetched earlier
FilledCaches ==
  [n \in CacheNames |->
     IF n = CACHE_NAME THEN InstalledCaches[n]
     ELSE IF n = CACHE_NAME_IMAGES
       THEN [i \in 1..MAX_CACHE_SIZE.images |-> Len(UrlPool) + i]
     ELSE [i \in 1..MAX_CACHE_SIZE.dynamic |->
             Len(UrlPool) + MAX_CACHE_SIZE.images + i]]

SWFilledInit == SWStart(FilledCaches)

NewHandler(request, strat) ==
  [request |-> request, strategy |-> strat[1], cacheName |-> strat[2],
   pc |-> IF strat[1] = "cacheFirst" THEN "cf_match"
          ELSE IF strat[1] = "networkFirst" THEN "nf_fetch"
          ELSE IF strat[1] = "networkOnly" THEN "no_fetch"
          ELSE "done",
   fetches |-> IF strat[1] \in {"networkFirst", "networkOnly"} THEN 1 ELSE 0,
   firstMatch |-> "none", outcome |-> "none",
   catchMatch |-> "none", offlineMatch |-> "none", response |-> NoResponse]

\* 'fetch' event listener: selects the strategy and calls event.respondWith
FetchEvent(request) ==
  /\ Len(handlers) < MaxRequests
  /\ handlers' = Append(handlers, NewHandler(request, Dispatch[request]))
  /\ UNCHANGED <<caches, pendingPuts, pendingLimits>>

\* where cacheFirst goes after its first caches.match
CacheFirstAlwaysFetch(cached) == "cf_fetch"

CacheFirstAfterMatch(cached) == IF cached THEN "done" ELSE "cf_fetch"

\* cacheFirst: const cachedResponse = await caches.match(request)
CacheFirstMatch(h) ==
  /\ handlers[h].pc = "cf_match"
  /\ LET cached == CachesMatch(handlers[h].request.url)
         next == CacheFirstAfterMatch(cached)
     IN handlers' = [handlers EXCEPT
          ![h].firstMatch = IF cached THEN "hit" ELSE "miss",
          ![h].pc = next,
          ![h].fetches = IF next = "cf_fetch" THEN @ + 1 ELSE @,
          ![h].response = IF next = "done"
                            THEN [src |-> "cache", url |-> handlers[h].request.url]
                            ELSE @]
  /\ UNCHANGED <<caches, pendingPuts, pendingLimits>>

\* the part shared by both strategies after "await fetch(request)" settles
AfterFetch(h, outcome, catchPc, limited) ==
  LET hd == handlers[h]
  IN IF outcome = "throw"
       THEN /\ handlers' = [handlers EXCEPT ![h].outcome = outcome, ![h].pc = catchPc]
            /\ UNCHANGED <<caches, pendingPuts, pendingLimits>>
       ELSE /\ handlers' = [handlers EXCEPT
                  ![h].outcome = outcome,
                  ![h].pc = "done",
                  ![h].response = [src |-> "network", url |-> hd.request.url,
                                   status |-> IF outcome = "ok200" THEN 200 ELSE 404]]
            /\ pendingPuts' = IF outcome = "ok200"
                                THEN pendingPuts \cup {<<hd.cacheName, hd.request.url>>}
                                ELSE pendingPuts
            /\ pendingLimits' = IF outcome = "ok200" /\ hd.cacheName = limited
                                  THEN pendingLimits \cup {hd.cacheName}
                                  ELSE pendingLimits
            /\ UNCHANGED caches

\* cacheFirst: const networkResponse = await fetch(request), then cache and return it
CacheFirstFetch(h, outcome) ==
  /\ handlers[h].pc = "cf_fetch"
  /\ AfterFetch(h, outcome, "cf_catch", CACHE_NAME_IMAGES)

\* networkFirst: const networkResponse = await fetch(request), then cache and return it
NetworkFirstFetch(h, outcome) ==
  /\ handlers[h].pc = "nf_fetch"
  /\ AfterFetch(h, outcome, "nf_catch", CACHE_NAME_DYNAMIC)

\* what the catch block answers once its lookups are known
FallbackNoOfflinePage(cachedHit, isNavigate, offlineHit) ==
  IF cachedHit THEN "cache" ELSE "synthetic503"

FallbackResponse(cachedHit, isNavigate, offlineHit) ==
  IF cachedHit THEN "cache"
  ELSE IF isNavigate /\ offlineHit THEN "offline"
  ELSE "synthetic503"

MakeResponse(kind, url) ==
  IF kind = "cache" THEN [src |-> "cache", url |-> url]
  ELSE IF kind = "offline" THEN [src |-> "cache", url |-> OFFLINE_URL]
  ELSE [src |-> "synthetic", status |-> 503, statusText |-> "Service Unavailable"]

\* catch block of cacheFirst / networkFirst: await caches.match(request)
CatchMatch(h) ==
  /\ handlers[h].pc \in {"cf_catch", "nf_catch"}
  /\ LET hd == handlers[h]
         cached == CachesMatch(hd.request.url)
         navigate == hd.request.mode = "navigate"
     IN handlers' = [handlers EXCEPT
          ![h].catchMatch = IF cached THEN "hit" ELSE "miss",
          ![h].pc = IF cached \/ ~navigate THEN "done" ELSE "offline_match",
          ![h].response = IF cached \/ ~navigate
                            THEN MakeResponse(FallbackResponse(cached, navigate, FALSE),
                                              hd.request.url)
                            ELSE @]
  /\ UNCHANGED <<caches, pendingPuts, pendingLimits>>

\* catch block, navigation request: await caches.match('/offline.html')
OfflineMatch(h) ==
  /\ handlers[h].pc = "offline_match"
  /\ LET hd == handlers[h]
         offline == CachesMatch(OFFLINE_URL)
     IN handlers' = [handlers EXCEPT
          ![h].offlineMatch = IF offline THEN "hit" ELSE "miss",
          ![h].pc = "done",
          ![h].response = MakeResponse(FallbackResponse(FALSE, TRUE, offline),
                                       hd.request.url)]
  /\ UNCHANGED <<caches, pendingPuts, pendingLimits>>

\* network-only: event.respondWith(fetch(request))
NetworkOnlyFetch(h, outcome) ==
  /\ handlers[h].pc = "no_fetch"
  /\ handlers' = [handlers EXCEPT
       ![h].outcome = outcome,
       ![h].pc = "done",
       ![h].response = IF outcome = "throw" THEN [src |-> "rejected"]
                       ELSE [src |-> "network", url |-> handlers[h].request.url,
                             status |-> IF outcome = "ok200" THEN 200 ELSE 404]]
  /\ UNCHANGED <<caches, pendingPuts, pendingLimits>>

\* a cache.put issued by a strategy settles
PutSettles(p) ==
  /\ p \in pendingPuts
  /\ caches' = [caches EXCEPT ![p[1]] = CachePut(@, p[2])]
  /\ pendingPuts' = pendingPuts \ {p}
  /\ UNCHANGED <<handlers, pendingLimits>>

\* a limitCacheSize call issued by a strategy runs
LimitRuns(n) ==
  /\ n \in pendingLimits
  /\ caches' = [caches EXCEPT ![n] =
       LimitKeys(@, IF n = CACHE_NAME_IMAGES THEN MAX_CACHE_SIZE.images
                    ELSE MAX_CACHE_SIZE.dynamic)]
  /\ pendingLimits' = pendingLimits \ {n}
  /\ UNCHANGED <<handlers, pendingPuts>>

\* 'message' event listener, action 'clearCache': every cache is deleted
ClearCache ==
  /\ \E n \in CacheNames : caches[n] # <<>>
  /\ caches' = [n \in CacheNames |-> <<>>]
  /\ UNCHANGED <<handlers, pendingPuts, pendingLimits>>

SWNext ==
  \/ \E r \in Requests : FetchEvent(r)
  \/ \E h \in DOMAIN handlers : CacheFirstMatch(h)
  \/ \E h \in DOMAIN handlers, o \in FetchOutcomes : CacheFirstFetch(h, o)
  \/ \E h \in DOMAIN handlers, o \in FetchOutcomes : NetworkFirstFetch(h, o)
  \/ \E h \in DOMAIN handlers : CatchMatch(h)
  \/ \E h \in DOMAIN handlers : OfflineMatch(h)
  \/ \E h \in DOMAIN handlers, o \in FetchOutcomes : NetworkOnlyFetch(h, o)
  \/ \E p \in pendingPuts : PutSettles(p)
  \/ \E n \in pendingLimits : LimitRuns(n)
  \/ ClearCache

\* ========================================================================
\* I18nManager
\* ========================================================================
supportedLanguages == <<<<"p","t","-","B","R">>, <<"e","n","-","U","S">>, <<"e","s","-","E","S">>>>

defaultLanguage == <<"p","t","-","B","R">>

Undefined == [kind |-> "undefined"]

Null == [kind |-> "null"]

Str(text) == [kind |-> "str", text |-> text]

Obj(fields) == [kind |-> "obj", fields |-> fields]

NoFields == [x \in {} |-> Undefined]

\* String.prototype.split: the pieces of s between occurrences of the character sep
RECURSIVE Split(_, _)
Split(s, sep) ==
  LET i == IndexOfFrom(s, sep, 1)
  IN IF i = 0 THEN <<s>>
     ELSE <<SubSeq(s, 1, i - 1)>> \o Split(SubSeq(s, i + 1, Len(s)), sep)

\* Contents a locale file /locales/<lang>.json may have.  Every string is
\* tagged with its language and key, so that a value tells where it came from.
LocaleShapes(lang) ==
  LET t(key) == Str(lang \o <<":">> \o key)
  IN { Obj((<<"a">> :> Obj(<<"b">> :> t(<<"a",".","b">>))) @@ (<<"b">> :> t(<<"b">>))
           @@ (<<"m","e","t","a">> :> Obj(<<"t","i","t","l","e">> :> t(<<"m","e","t","a",".","t","i","t","l","e">>)))),
       Obj((<<"a">> :> Obj(<<"b">> :> t(<<"a",".","b">>)))),
       Obj((<<"a">> :> t(<<"a">>)) @@ (<<"b">> :> t(<<"b">>))
           @@ (<<"m","e","t","a">> :> Obj(<<"t","i","t","l","e">> :> t(<<"m","e","t","a",".","t","i","t","l","e">>)))),
       Obj((<<"a">> :> Obj(NoFields)) @@ (<<"b">> :> t(<<"b">>))) }

\* the locale file with every key the page uses
FullLocale(lang) ==
  LET t(key) == Str(lang \o <<":">> \o key)
  IN Obj((<<"a">> :> Obj(<<"b">> :> t(<<"a",".","b">>))) @@ (<<"b">> :> t(<<"b">>))
         @@ (<<"m","e","t","a">> :> Obj(<<"t","i","t","l","e">> :> t(<<"m","e","t","a",".","t","i","t","l","e">>))))

\* keys passed to translate
Keys == {<<"a">>, <<"a",".","b">>, <<"b">>, <<"b",".","a">>}

\* fallback arguments passed to translate ('' is the default)
Fallbacks == {<<>>, <<"f","b">>}

\* data-i18n attributes of the page's elements
DomKeys == {<<"a",".","b">>, <<"b">>}

\* values of navigator.language
BrowserLanguages == {<<"p","t","-","B","R">>, <<"e","n","-","G","B">>, <<"f","r","-","F","R">>}

\* arguments of setLanguage: the language buttons' data-lang, and one that is not supported
RequestedLanguages == Range(supportedLanguages) \cup {<<"f","r","-","F","R">>}

VARIABLES
  files,          \* the locale files on the server: language -> parsed JSON
  translations,   \* this.translations: language -> parsed JSON or Undefined
  currentLang,    \* this.currentLang
  docLang,        \* document.documentElement.lang
  dom,            \* data-i18n key -> [text, by]: the element's text and the call that wrote it
  docTitle,       \* document.title as [text, by]
  calls,          \* the setLanguage calls made so far
  lastCompleted,  \* the call whose locale load completed last (0: none)
  liveRegion,     \* text of #aria-live-region
  clearTimers,    \* pending setTimeout callbacks of announceLanguageChange
  initCalled      \* init() has been called

i18nVars == <<files, translations, currentLang, docLang, dom, docTitle, calls,
              lastCompleted, liveRegion, clearTimers, initCalled>>

\* detectLanguage
detectLanguage(browserLang) ==
  IF browserLang \in Range(supportedLanguages) THEN browserLang
  ELSE LET langCode == Split(browserLang, "-")[1]
           matching == {i \in DOMAIN supportedLanguages :
                          StartsWith(supportedLanguages[i], langCode)}
       IN IF matching # {}
            THEN supportedLanguages[CHOOSE i \in matching : \A j \in matching : i <= j]
            ELSE defaultLanguage

\* fallback || key
FallbackOrKey(key, fallback) == IF fallback # <<>> THEN Str(fallback) ELSE Str(key)

\* value && typeof value === 'object' && k in value
HasKey(value, k) == value.kind = "obj" /\ k \in DOMAIN value.fields

\* inner loop of translate: the walk through the default language
RECURSIVE DefaultWalk(_, _, _, _, _)
DefaultWalk(defaultValue, keys, i, key, fallback) ==
  IF i > Len(keys) THEN defaultValue
  ELSE IF HasKey(defaultValue, keys[i])
    THEN DefaultWalk(defaultValue.fields[keys[i]], keys, i + 1, key, fallback)
  ELSE FallbackOrKey(key, fallback)

\* outer loop of translate: the walk through the current language
RECURSIVE Walk(_, _, _, _, _, _, _)
Walk(value, keys, i, key, fallback, lang, trans) ==
  IF i > Len(keys) THEN value
  ELSE IF HasKey(value, keys[i])
    THEN Walk(value.fields[keys[i]], keys, i + 1, key, fallback, lang, trans)
  ELSE IF lang # defaultLanguage /\ trans[defaultLanguage] # Undefined
    THEN DefaultWalk(trans[defaultLanguage], keys, 1, key, fallback)
  ELSE FallbackOrKey(key, fallback)

\* translate(key, fallback) with this.currentLang = lang and this.translations = trans
translate(key, fallback, lang, trans) ==
  IF lang = Null \/ trans[lang] = Undefined THEN FallbackOrKey(key, fallback)
  ELSE Walk(trans[lang], Split(key, "."), 1, key, fallback, lang, trans)

\* if (translation && translation !== key)
Truthy(value) == ~(value.kind = "str" /\ value.text = <<>>) /\ value.kind \notin {"undefined", "null"}

\* applyTranslations, by call c
applyTranslations(c, lang, trans) ==
  [k \in DomKeys |->
     LET translation == translate(k, <<>>, lang, trans)
     IN IF Truthy(translation) /\ translation # Str(k)
          THEN [text |-> translation, by |-> c]
          ELSE dom[k]]

\* updateMetaTags, by call c (document.title)
updateMetaTags(c, lang, trans) ==
  LET meta == translate(<<"m","e","t","a">>, <<>>, lang, trans)
  IN IF meta.kind = "obj" /\ HasKey(meta, <<"t","i","t","l","e">>) /\ Truthy(meta.fields[<<"t","i","t","l","e">>])
       THEN [text |-> meta.fields[<<"t","i","t","l","e">>], by |-> c]
       ELSE docTitle

\* the possible contents of the three locale files
LocaleFiles ==
  {f \in [Range(supportedLanguages) ->
            UNION {LocaleShapes(l) : l \in Range(supportedLanguages)}] :
     \A l \in Range(supportedLanguages) : f[l] \in LocaleShapes(l)}

FullFiles == [l \in Range(supportedLanguages) |-> FullLocale(l)]

\* state after "new I18nManager()", with f the locale files on the server
I18nStart(f) ==
  /\ files = f
  /\ translations = [l \in Range(supportedLanguages) |-> Undefined]
  /\ currentLang = Null
  /\ docLang = <<"h","t","m","l">>
  /\ dom = [k \in DomKeys |-> [text |-> Str(<<"h","t","m","l",":">> \o k), by |-> 0]]
  /\ docTitle = [text |-> Str(<<"h","t","m","l",":","t","i","t","l","e">>), by |-> 0]
  /\ calls = <<>>
  /\ lastCompleted = 0
  /\ liveRegion = <<>>
  /\ clearTimers = 0
  /\ initCalled = FALSE

I18nInit == \E f \in LocaleFiles : I18nStart(f)

\* setLanguage up to its first await: the language is normalised and the load starts
StartSetLanguage(lang) ==
  calls' = Append(calls,
     [requested |-> lang,
      lang |-> IF lang \in Range(supportedLanguages) THEN lang ELSE defaultLanguage,
      pc |-> "load", result |-> "pending",
      overlaps |-> \E c \in DOMAIN calls : calls[c].pc # "done"])

\* init: setLanguage(detectLanguage())
I18nManagerInit(browserLang) ==
  /\ ~initCalled
  /\ Len(calls) < MaxCalls
  /\ initCalled' = TRUE
  /\ StartSetLanguage(detectLanguage(browserLang))
  /\ UNCHANGED <<files, translations, currentLang, docLang, dom, docTitle,
                 lastCompleted, liveRegion, clearTimers>>

\* a language button is clicked (App.setupLanguageSwitcher): setLanguage(lang)
SetLanguage(lang) ==
  /\ Len(calls) < MaxCalls
  /\ StartSetLanguage(lang)
  /\ UNCHANGED <<files, translations, currentLang, docLang, dom, docTitle,
                 lastCompleted, liveRegion, clearTimers, initCalled>>

\* setLanguage after "await this.loadLanguage(lang)" has returned, with trans
\* the translations as loadLanguage left them
FinishSetLanguage(c, trans) ==
  LET lang == calls[c].lang
  IN /\ currentLang' = lang
     /\ docLang' = lang
     /\ dom' = applyTranslations(c, lang, trans)
     /\ docTitle' = updateMetaTags(c, lang, trans)
     /\ liveRegion' = lang
     /\ clearTimers' = clearTimers + 1
     /\ lastCompleted' = c
     /\ calls' = [calls EXCEPT ![c].pc = "done", ![c].result = "true"]

\* setLanguage's catch block: loadLanguage threw
FailSetLanguage(c) ==
  /\ calls' = [calls EXCEPT ![c].pc = "done", ![c].result = "false"]
  /\ UNCHANGED <<currentLang, docLang, dom, docTitle, liveRegion, clearTimers, lastCompleted>>

\* loadLanguage(lang): the fetch and response.json() succeed
LoadOk(c) ==
  /\ calls[c].pc = "load"
  /\ LET trans == [translations EXCEPT ![calls[c].lang] = files[calls[c].lang]]
     IN /\ translations' = trans
        /\ FinishSetLanguage(c, trans)
  /\ UNCHANGED <<files, initCalled>>

\* loadLanguage(lang): the fetch fails, the response is not ok or the JSON is invalid
LoadFails(c) ==
  /\ calls[c].pc = "load"
  /\ IF calls[c].lang # defaultLanguage /\ translations[defaultLanguage] = Undefined
       THEN /\ calls' = [calls EXCEPT ![c].pc = "loadDefault"]
            /\ UNCHANGED <<currentLang, docLang, dom, docTitle, liveRegion, clearTimers,
                           lastCompleted>>
       ELSE FailSetLanguage(c)
  /\ UNCHANGED <<files, translations, initCalled>>

\* the fallback loadLanguage(defaultLanguage) succeeds and its result is returned
LoadDefaultOk(c) ==
  /\ calls[c].pc = "loadDefault"
  /\ LET trans == [translations EXCEPT ![defaultLanguage] = files[defaultLanguage]]
     IN /\ translations' = trans
        /\ FinishSetLanguage(c, trans)
  /\ UNCHANGED <<files, initCalled>>

\* the fallback loadLanguage(defaultLanguage) fails too
LoadDefaultFails(c) ==
  /\ calls[c].pc = "loadDefault"
  /\ FailSetLanguage(c)
  /\ UNCHANGED <<files, translations, initCalled>>

\* the timer of announceLanguageChange clears the live region
ClearLiveRegion ==
  /\ clearTimers > 0
  /\ clearTimers' = clearTimers - 1
  /\ liveRegion' = <<>>
  /\ UNCHANGED <<files, translations, currentLang, docLang, dom, docTitle, calls,
                 lastCompleted, initCalled>>

I18nNext ==
  \/ \E b \in BrowserLanguages : I18nManagerInit(b)
  \/ \E l \in RequestedLanguages : SetLanguage(l)
  \/ \E c \in DOMAIN calls : LoadOk(c)
  \/ \E c \in DOMAIN calls : LoadFails(c)
  \/ \E c \in DOMAIN calls : LoadDefaultOk(c)
  \/ \E c \in DOMAIN calls : LoadDefaultFails(c)
  \/ ClearLiveRegion


\* ========================================================================
\* AnalyticsManager
\* ========================================================================
\* localStorage key 'analytics-consent' holds one of these, or NoItem
NoItem == "null"

\* events the page tracks through trackEvent
TrackedEvents == {"click", "scroll"}

VARIABLES
  gaConfig,        \* this.config: [enabled, trackingId, cookieConsent], and AppConfig's enabled
  initialized,     \* this.initialized
  consentGiven,    \* this.consentGiven
  queue,           \* this.queue: names of the queued events
  storage,         \* localStorage.getItem('analytics-consent')
  scripts,         \* the gtag <script> elements injected: [state, consent at injection]
  gtagDefined,     \* window.gtag is defined
  dataLayer,       \* window.dataLayer: the gtag calls made, each with the consent at the call
  gaDisabled,      \* window['ga-disable-<id>']
  trackingSetups,  \* times setupEventTracking registered its listeners
  banner,          \* the cookie consent banner is in the document
  bannerTimers,    \* pending banner.remove() timers
  lastChoice,      \* the user's latest choice on this browser: "none", "accepted" or "denied"
  gaOps            \* calls made so far

gaVars == <<gaConfig, initialized, consentGiven, queue, storage, scripts, gtagDefined,
            dataLayer, gaDisabled, trackingSetups, banner, bannerTimers, lastChoice, gaOps>>

\* checkCookieConsent
checkCookieConsent(item) == item = "true"

\* values grantConsent / denyConsent store under 'analytics-consent'
GrantedItem == "true"

DeniedItem == "false"

\* constructor, as called by App.initializeAnalytics
GaStart(enabled, cookieConsent, item) ==
  /\ gaConfig = [enabled |-> enabled, trackingId |-> TRUE, cookieConsent |-> cookieConsent,
                 appEnabled |-> enabled]
  /\ initialized = FALSE
  /\ consentGiven = FALSE
  /\ queue = <<>>
  /\ storage = item
  /\ scripts = <<>>
  /\ gtagDefined = FALSE
  /\ dataLayer = <<>>
  /\ gaDisabled = FALSE
  /\ trackingSetups = 0
  /\ banner = FALSE
  /\ bannerTimers = 0
  /\ lastChoice = "none"
  /\ gaOps = 0

GaInit == \E e \in BOOLEAN, c \in BOOLEAN, item \in {NoItem, GrantedItem, DeniedItem} :
            GaStart(e, c, item)

GtagCall(cmd, name) == [cmd |-> cmd, name |-> name, consent |-> storage' = GrantedItem]

\* trackEvent(name) with the given flags: <<queue, dataLayer>> afterwards
TrackEvent(name, q, dl, isInit, consent, gtag) ==
  IF ~isInit \/ ~consent THEN <<Append(q, name), dl>>
  ELSE IF gtag THEN <<q, Append(dl, GtagCall("event", name))>>
  ELSE <<q, dl>>

\* processQueue: forEach over the events queued at its start, then queue = []
RECURSIVE ProcessQueue(_, _, _, _, _, _)
ProcessQueue(q, i, dl, isInit, consent, gtag) ==
  IF i > Len(q) THEN dl
  ELSE ProcessQueue(q, i + 1, TrackEvent(q[i], <<>>, dl, isInit, consent, gtag)[2],
                    isInit, consent, gtag)

\* init(), entered with the config cfg and this.consentGiven = consent: everything
\* up to "await this.loadGoogleAnalytics()", which injects the script
InitBody(cfg, consent) ==
  LET inject == Append(scripts, [state |-> "loading", consent |-> storage' = GrantedItem])
  IN IF initialized \/ ~cfg.enabled \/ ~cfg.trackingId
       THEN /\ consentGiven' = consent
            /\ UNCHANGED <<scripts, banner>>
     ELSE IF cfg.cookieConsent
       THEN /\ consentGiven' = checkCookieConsent(storage')
            /\ IF checkCookieConsent(storage')
                 THEN scripts' = inject /\ UNCHANGED banner
                 ELSE banner' = TRUE /\ UNCHANGED scripts
     ELSE /\ consentGiven' = TRUE
          /\ scripts' = inject
          /\ UNCHANGED banner

GaOp == gaOps < MaxGaOps /\ gaOps' = gaOps + 1

\* analytics.init()
AnalyticsInit ==
  /\ GaOp
  /\ UNCHANGED storage
  /\ InitBody(gaConfig, consentGiven)
  /\ UNCHANGED <<gaConfig, initialized, queue, gtagDefined, dataLayer, gaDisabled,
                 trackingSetups, bannerTimers, lastChoice>>

\* script.onload of loadGoogleAnalytics, and the rest of init() that its resolve() resumes
ScriptLoads(i) ==
  /\ scripts[i].state = "loading"
  /\ UNCHANGED storage
  /\ scripts' = [scripts EXCEPT ![i].state = "loaded"]
  /\ gtagDefined' = TRUE
  /\ LET dl1 == dataLayer \o <<GtagCall("js", "date"), GtagCall("config", "trackingId")>>
         \* setupEventTracking: trackPageView, then the listeners
         t == TrackEvent("page_view", queue, dl1, initialized, consentGiven, TRUE)
     IN /\ dataLayer' = ProcessQueue(t[1], 1, t[2], initialized, consentGiven, TRUE)
        /\ queue' = <<>>
  /\ trackingSetups' = trackingSetups + 1
  /\ initialized' = TRUE
  /\ UNCHANGED <<gaConfig, consentGiven, gaDisabled, banner, bannerTimers, lastChoice, gaOps>>

\* script.onerror: loadGoogleAnalytics rejects and init() logs the error
ScriptFails(i) ==
  /\ scripts[i].state = "loading"
  /\ scripts' = [scripts EXCEPT ![i].state = "error"]
  /\ UNCHANGED <<gaConfig, initialized, consentGiven, queue, storage, gtagDefined, dataLayer,
                 gaDisabled, trackingSetups, banner, bannerTimers, lastChoice, gaOps>>

\* trackEvent(name), called by the page or by one of the registered listeners
AnalyticsTrackEvent(name) ==
  /\ GaOp
  /\ UNCHANGED storage
  /\ LET t == TrackEvent(name, queue, dataLayer, initialized, consentGiven, gtagDefined)
     IN queue' = t[1] /\ dataLayer' = t[2]
  /\ UNCHANGED <<gaConfig, initialized, consentGiven, scripts, gtagDefined, gaDisabled,
                 trackingSetups, banner, bannerTimers, lastChoice>>

\* grantConsent()
GrantConsent ==
  /\ GaOp
  /\ storage' = GrantedItem
  /\ lastChoice' = "accepted"
  /\ bannerTimers' = IF banner THEN bannerTimers + 1 ELSE bannerTimers
  /\ InitBody(gaConfig, TRUE)
  /\ UNCHANGED <<gaConfig, initialized, queue, gtagDefined, dataLayer, gaDisabled,
                 trackingSetups>>

\* denyConsent()
DenyConsent ==
  /\ GaOp
  /\ storage' = DeniedItem
  /\ lastChoice' = "denied"
  /\ consentGiven' = FALSE
  /\ bannerTimers' = IF banner THEN bannerTimers + 1 ELSE bannerTimers
  /\ UNCHANGED <<gaConfig, initialized, queue, scripts, gtagDefined, dataLayer, gaDisabled,
                 trackingSetups, banner>>

\* disable()
AnalyticsDisable ==
  /\ GaOp
  /\ gaConfig' = [gaConfig EXCEPT !.enabled = FALSE]
  /\ initialized' = FALSE
  /\ gaDisabled' = TRUE
  /\ UNCHANGED <<consentGiven, queue, storage, scripts, gtagDefined, dataLayer,
                 trackingSetups, banner, bannerTimers, lastChoice>>

\* enable()
AnalyticsEnable ==
  /\ GaOp
  /\ gaConfig' = [gaConfig EXCEPT !.enabled = TRUE]
  /\ gaDisabled' = FALSE
  /\ UNCHANGED storage
  /\ InitBody(gaConfig', consentGiven)
  /\ UNCHANGED <<initialized, queue, gtagDefined, dataLayer, trackingSetups, bannerTimers,
                 lastChoice>>

\* setTimeout(() => banner.remove(), 300)
BannerRemoved ==
  /\ bannerTimers > 0
  /\ bannerTimers' = bannerTimers - 1
  /\ banner' = FALSE
  /\ UNCHANGED <<gaConfig, initialized, consentGiven, queue, storage, scripts, gtagDefined,
                 dataLayer, gaDisabled, trackingSetups, lastChoice, gaOps>>

\* the page is loaded again: a new AnalyticsManager, the same localStorage
PageReload ==
  /\ GaOp
  /\ gaConfig' = [gaConfig EXCEPT !.enabled = gaConfig.appEnabled]
  /\ initialized' = FALSE
  /\ consentGiven' = FALSE
  /\ queue' = <<>>
  /\ scripts' = <<>>
  /\ gtagDefined' = FALSE
  /\ dataLayer' = <<>>
  /\ gaDisabled' = FALSE
  /\ trackingSetups' = 0
  /\ banner' = FALSE
  /\ bannerTimers' = 0
  /\ UNCHANGED <<storage, lastChoice>>

GaNext ==
  \/ AnalyticsInit
  \/ \E i \in DOMAIN scripts : ScriptLoads(i)
  \/ \E i \in DOMAIN scripts : ScriptFails(i)
  \/ \E n \in TrackedEvents : AnalyticsTrackEvent(n)
  \/ GrantConsent
  \/ DenyConsent
  \/ AnalyticsDisable
  \/ AnalyticsEnable
  \/ BannerRemoved
  \/ PageReload


\* ========================================================================
\* Build script
\* ========================================================================
cssFiles == <<
  <<"c","s","s","/","t","h","e","m","e","s",".","c","s","s">>,
  <<"c","s","s","/","a","n","i","m","a","t","i","o","n","s",".","c","s","s">>,
  <<"c","s","s","/","s","t","y","l","e",".","c","s","s">>,
  <<"c","s","s","/","r","e","s","p","o","n","s","i","v","e","-","f","i","x","e","s",".","c","s","s">>,
  <<"c","s","s","/","p","e","r","f","o","r","m","a","n","c","e","-","o","p","t","i","m","i","z","a","t","i","o","n","s",".","c","s","s">> >>

jsFiles == <<
  <<"j","s","/","c","o","n","f","i","g",".","j","s">>,
  <<"j","s","/","p","o","l","y","f","i","l","l","s",".","j","s">>,
  <<"j","s","/","i","1","8","n",".","j","s">>,
  <<"j","s","/","a","n","i","m","a","t","i","o","n","-","c","o","n","t","r","o","l","l","e","r",".","j","s">>,
  <<"j","s","/","l","a","z","y","-","l","o","a","d","e","r",".","j","s">>,
  <<"j","s","/","p","e","r","f","o","r","m","a","n","c","e","-","m","o","n","i","t","o","r",".","j","s">>,
  <<"j","s","/","a","n","a","l","y","t","i","c","s",".","j","s">>,
  <<"j","s","/","p","r","o","j","e","c","t","-","d","a","t","a",".","j","s">>,
  <<"j","s","/","p","r","o","j","e","c","t","-","m","o","d","a","l",".","j","s">>,
  <<"j","s","/","f","o","r","m","-","h","a","n","d","l","e","r",".","j","s">>,
  <<"j","s","/","a","p","p",".","j","s">> >>

outputDir == <<"d","i","s","t">>

\* files of copyDirs and rootFiles present in the working tree
StaticFiles == {<<"i","m","g","/","f","a","v","i","c","o","n",".","s","v","g">>, <<"l","o","c","a","l","e","s","/","p","t","-","B","R",".","j","s","o","n">>, <<"r","o","b","o","t","s",".","t","x","t">>, <<"s","i","t","e","m","a","p",".","x","m","l">>}

\* process.env.SITE_URL || 'https://careca.is-a.dev', without a trailing slash
siteUrl == <<"h","t","t","p","s",":","/","/","c","a","r","e","c","a",".","i","s","-","a",".","d","e","v">>

\* Source texts of the model are made of letters and blanks, on which the
\* minifiers' whitespace rules (/\s+/g -> ' ', trim) are the ones that act.
SourceTexts == {<<"a"," ","b">>, <<"a"," "," ","b"," ">>, <<"a","b">>}

\* files whose text the model edits between builds
EditableFiles == {<<"c","s","s","/","s","t","y","l","e",".","c","s","s">>}

\* files the model removes from, and puts back into, the working tree
RemovableFiles == {<<"j","s","/","c","o","n","f","i","g",".","j","s">>}

IsBlank(c) == c = " "

\* .replace(/\s+/g, ' '): every run of blanks becomes one blank
RECURSIVE CollapseBlanks(_)
CollapseBlanks(t) ==
  IF t = <<>> THEN <<>>
  ELSE IF IsBlank(t[1]) /\ Len(t) > 1 /\ IsBlank(t[2]) THEN CollapseBlanks(Tail(t))
  ELSE <<t[1]>> \o CollapseBlanks(Tail(t))

\* String.prototype.trim
RECURSIVE Trim(_)
Trim(t) ==
  IF t = <<>> THEN <<>>
  ELSE IF IsBlank(t[1]) THEN Trim(Tail(t))
  ELSE IF IsBlank(t[Len(t)]) THEN Trim(SubSeq(t, 1, Len(t) - 1))
  ELSE t

minifyCSS(css) == Trim(CollapseBlanks(css))

minifyJS(js) == Trim(CollapseBlanks(js))

HexDigits == <<"0", "1", "2", "3", "4", "5", "6", "7", "8", "9", "a", "b", "c", "d", "e", "f">>

CharCode(c) == IF c = "a" THEN 1 ELSE IF c = "b" THEN 2 ELSE 3

RECURSIVE Mix(_, _)
Mix(t, acc) == IF t = <<>> THEN acc ELSE Mix(Tail(t), (acc * 31 + CharCode(t[1])) % 65521)

\* crypto.createHash('md5').update(content).digest('hex'): 32 hex digits that
\* are a function of the content alone (a stand-in for the library's MD5)
Md5Hex(content) ==
  LET m == Mix(content, 7)
  IN [i \in 1..32 |-> HexDigits[(((m * (i + 12)) \div (i + 1)) % 16) + 1]]

\* generateHash
generateHashShort(content) == SubSeq(Md5Hex(content), 1, 7)

generateHash(content) == SubSeq(Md5Hex(content), 1, 8)

\* path.dirname
PathDirname(p) ==
  LET i == LastIndexOf(p, "/") IN IF i = 0 THEN <<".">> ELSE SubSeq(p, 1, i - 1)

\* the last segment of a path
PathLastSegment(p) == SubSeq(p, LastIndexOf(p, "/") + 1, Len(p))

\* path.extname
PathExtname(p) ==
  LET seg == PathLastSegment(p)
      i == LastIndexOf(seg, ".")
  IN IF i <= 1 THEN <<>> ELSE SubSeq(seg, i, Len(seg))

\* path.basename(p, ext)
PathBasename(p, ext) ==
  LET seg == PathLastSegment(p)
  IN IF ext # <<>> /\ EndsWith(seg, ext) /\ Len(seg) > Len(ext)
       THEN SubSeq(seg, 1, Len(seg) - Len(ext))
       ELSE seg

\* path.posix.join(dir, name) / path.join(dir, name)
PathJoin(dir, name) == IF dir = <<".">> THEN name ELSE dir \o <<"/">> \o name

\* createHashedFile: the hashed relative path; the file is written to outputDir
createHashedFile(relativeFilePath, content) ==
  LET dir == PathDirname(relativeFilePath)
      ext == PathExtname(relativeFilePath)
      base == PathBasename(relativeFilePath, ext)
      hash == generateHash(content)
  IN PathJoin(dir, base \o <<".">> \o hash \o ext)

\* String.prototype.replaceAll(from, to): the occurrences of from, leftmost
\* first and not overlapping, become to
RECURSIVE ReplaceAll(_, _, _)
ReplaceAll(text, from, to) ==
  LET occ == {i \in 1..(Len(text) - Len(from) + 1) :
                SubSeq(text, i, i + Len(from) - 1) = from}
  IN IF occ = {} THEN text
     ELSE LET i == CHOOSE k \in occ : \A m \in occ : k <= m
          IN SubSeq(text, 1, i - 1) \o to
               \o ReplaceAll(SubSeq(text, i + Len(from), Len(text)), from, to)

\* index.html is a sequence of tags, each with the attribute value the build
\* or the smoke test looks at: <link href>, <script src>, and the meta tags
\* that processIndexHtml rewrites
Tag(kind, value) == [kind |-> kind, value |-> value]

BaseHtml == <<
  Tag("canonical", <<"h","t","t","p","s",":","/","/","s","e","u","d","o","m","i","n","i","o",".","c","o","m","/">>),
  Tag("og:image", <<"h","t","t","p","s",":","/","/","s","e","u","d","o","m","i","n","i","o",".","c","o","m","/","i","m","g","/","p","r","o","f","i","l","e",".","s","v","g">>),
  Tag("ga4-measurement-id", <<>>),
  Tag("link", EXTERNAL_ASSETS[1]),
  Tag("link", <<"i","m","g","/","f","a","v","i","c","o","n",".","s","v","g">>),
  Tag("link", <<"c","s","s","/","t","h","e","m","e","s",".","c","s","s">>),
  Tag("link", <<"c","s","s","/","s","t","y","l","e",".","c","s","s">>),
  Tag("script", <<"j","s","/","c","o","n","f","i","g",".","j","s">>),
  Tag("script", <<"j","s","/","a","p","p",".","j","s">>) >>

\* the index.html documents the model builds
HtmlDocs == {
  BaseHtml,
  BaseHtml \o <<Tag("link", <<"c","s","s","/","s","t","y","l","e",".","c","s","s">>)>>,
  BaseHtml \o <<Tag("script", <<"j","s","/","s","c","r","i","p","t",".","j","s">>)>> }

VARIABLES
  sources,      \* text of every configured CSS and JS file
  unreadable,   \* configured files that cannot be read
  indexHtml,    \* index.html in the working tree
  dist,         \* paths of the files in the output directory
  distHtml,     \* dist/index.html
  assetMap,     \* the asset map of the last build: pairs <<original, hashed>>
  exitCode,     \* process.exitCode of the last build
  buildStatus,  \* "none", "ok" or "failed"
  builds,       \* builds run so far
  written       \* every createHashedFile call so far: [build, path, content, name, out]

buildVars == <<sources, unreadable, indexHtml, dist, distHtml, assetMap, exitCode,
               buildStatus, builds, written>>

ConfiguredFiles == Range(cssFiles) \cup Range(jsFiles)

BuildStart(html) ==
  /\ sources = [f \in ConfiguredFiles |-> <<"a"," ","b">>]
  /\ unreadable = {}
  /\ indexHtml = html
  /\ dist = {}
  /\ distHtml = <<>>
  /\ assetMap = <<>>
  /\ exitCode = 0
  /\ buildStatus = "none"
  /\ builds = 0
  /\ written = {}

BuildInit == \E html \in HtmlDocs : BuildStart(html)

\* minifier(source) and createHashedFile(file, optimized) of processAssets,
\* for every configured file and every source text of the model
HashedFiles ==
  [file \in ConfiguredFiles |-> [source \in SourceTexts |->
     LET optimized == IF file \in Range(cssFiles) THEN minifyCSS(source)
                      ELSE minifyJS(source)
     IN [content |-> optimized, name |-> createHashedFile(file, optimized)]]]

\* processAssets(files, minifier): from file i on, with acc the map, the
\* files written and the failure flag so far
RECURSIVE processAssets(_, _, _)
processAssets(fileList, i, acc) ==
  IF i > Len(fileList) THEN acc
  ELSE LET file == fileList[i]
       IN IF file \in unreadable
            THEN processAssets(fileList, i + 1, [acc EXCEPT !.failed = TRUE])
            ELSE LET optimized == HashedFiles[file][sources[file]].content
                     outputFile == HashedFiles[file][sources[file]].name
                 IN processAssets(fileList, i + 1,
                      [acc EXCEPT
                         !.assetMap = Append(@, <<file, outputFile>>),
                         !.calls = @ \cup {[path |-> file, content |-> optimized,
                                            name |-> outputFile,
                                            out |-> PathJoin(outputDir, outputFile)]}])

\* the replaceMetaValue calls of processIndexHtml
ReplaceMeta(tag) ==
  IF tag.kind = "canonical" THEN Tag(tag.kind, siteUrl \o <<"/">>)
  ELSE IF tag.kind = "og:image" THEN Tag(tag.kind, siteUrl \o <<"/","i","m","g","/","p","r","o","f","i","l","e",".","s","v","g">>)
  ELSE IF tag.kind = "ga4-measurement-id" THEN Tag(tag.kind, <<>>)
  ELSE tag

\* Object.entries(assetMap).forEach(... html.replaceAll(originalPath, hashedPath))
RECURSIVE ReplaceAssets(_, _, _)
ReplaceAssets(text, map, i) ==
  IF i > Len(map) THEN text
  ELSE ReplaceAssets(ReplaceAll(text, map[i][1], map[i][2]), map, i + 1)

\* processIndexHtml: the document written to dist/index.html
processIndexHtml(html, map) ==
  [n \in 1..Len(html) |->
     LET tag == ReplaceMeta(html[n])
     IN Tag(tag.kind, ReplaceAssets(tag.value, map, 1))]

\* build(): cleanOutputDir, processAssets twice, copyStaticAssets,
\* processIndexHtml, generateManifest
Build ==
  /\ builds < MaxBuilds
  /\ LET empty == [assetMap |-> <<>>, calls |-> {}, failed |-> FALSE]
         css == processAssets(cssFiles, 1, empty)
         js == processAssets(jsFiles, 1, empty)
         map == css.assetMap \o js.assetMap
         hashed == css.calls \cup js.calls
     IN /\ assetMap' = map
        /\ dist' = {c.out : c \in hashed}
                     \cup {PathJoin(outputDir, f) : f \in StaticFiles}
                     \cup {PathJoin(outputDir, <<"i","n","d","e","x",".","h","t","m","l">>),
                           PathJoin(outputDir, <<"b","u","i","l","d","-","m","a","n","i","f","e","s","t",".","j","s","o","n">>)}
        /\ distHtml' = processIndexHtml(indexHtml, map)
        /\ exitCode' = IF css.failed \/ js.failed THEN 1 ELSE 0
        /\ buildStatus' = IF css.failed \/ js.failed THEN "failed" ELSE "ok"
        /\ written' = written \cup
             {[build |-> builds + 1, path |-> c.path, content |-> c.content,
               name |-> c.name, out |-> c.out] : c \in hashed}
  /\ builds' = builds + 1
  /\ UNCHANGED <<sources, unreadable, indexHtml>>

\* a configured file is edited
EditSource(f, text) ==
  /\ sources[f] # text
  /\ sources' = [sources EXCEPT ![f] = text]
  /\ UNCHANGED <<unreadable, indexHtml, dist, distHtml, assetMap, exitCode, buildStatus,
                 builds, written>>

\* a configured file is removed from, or put back into, the working tree
ToggleSource(f) ==
  /\ unreadable' = IF f \in unreadable THEN unreadable \ {f} ELSE unreadable \cup {f}
  /\ UNCHANGED <<sources, indexHtml, dist, distHtml, assetMap, exitCode, buildStatus,
                 builds, written>>

BuildNext ==
  \/ Build
  \/ \E f \in EditableFiles, t \in SourceTexts : EditSource(f, t)
  \/ \E f \in RemovableFiles : ToggleSource(f)


\* ========================================================================
\* FormHandler (contact form)
\* ========================================================================
\* the inputs of #contactForm, in document order
FieldNames == <<"name", "email", "subject", "message">>

\* getValidationRules(input): every input carries the required attribute and
\* the email input is of type email
FieldRules ==
  [f \in Range(FieldNames) |->
     IF f = "email" THEN <<"required", "email">> ELSE <<"required">>]

\* values typed into the inputs
FieldTexts ==
  [f \in Range(FieldNames) |->
     IF f = "email" THEN {<<"a","@","b",".","c">>, <<"a","@","b">>, <<"a"," ","@","b",".","c">>, <<"@","b",".","c">>, <<"a","@","b",".">>}
     ELSE IF f = "name" THEN {<<" ">>, <<"a">>}
     ELSE IF f = "subject" THEN {<<"a">>}
     ELSE {<<"a"," ","b">>}]

\* form.reset(): the inputs have no value attribute
DefaultValues == [f \in Range(FieldNames) |-> <<>>]

NoSubmit == [data |-> DefaultValues, outcome |-> "none"]

\* the submit button as the page is loaded: enabled, with its own label
ButtonStart == [disabled |-> FALSE, loading |-> FALSE, label |-> "Send Message"]

\* textContent of the button after AnimationController's listener, and after
\* showLoading, replaced its innerHTML
EnviandoLabel == " Enviando..."

SendingLabel == " Sending..."

VARIABLES
  formValues,    \* element.value of every input
  fields,        \* this.fields: [valid, touched] of every input
  isSubmitting,  \* this.isSubmitting
  formLoading,   \* the submit button is disabled and shows the loading text
  requests,      \* bodies posted to the relay, in order
  lastSubmit,    \* the last submit event handled: [data, outcome]
  submitCount,   \* submit events handled so far
  pendingRequests,      \* requests posted to the relay and not yet answered
  button,               \* the submit button: [disabled, loading, label]
  datasetOriginalText,  \* submitBtn.dataset.originalText, "" while unset
  loadingTimers         \* pending timers of setupLoadingStates: the label each restores

formVars == <<formValues, fields, isSubmitting, formLoading, requests, lastSubmit,
              submitCount, pendingRequests, button, datasetOriginalText, loadingTimers>>

\* validators.required
ValidatorRequired(value) == Len(Trim(value)) > 0

\* validators.email: /^[^\s@]+@[^\s@]+\.[^\s@]+$/
ValidatorEmailLoose(value) == \E at \in 1..Len(value) : value[at] = "@"

ValidatorEmail(value) ==
  \E at \in 1..Len(value), dot \in 1..Len(value) :
    /\ value[at] = "@"
    /\ value[dot] = "."
    /\ 1 < at
    /\ at + 1 < dot
    /\ dot < Len(value)
    /\ \A i \in 1..Len(value) : ~IsBlank(value[i]) /\ (value[i] = "@" => i = at)

Validator(type, value) ==
  IF type = "required" THEN ValidatorRequired(value) ELSE ValidatorEmail(value)

\* validateField(fieldName): whether the value passes every rule of the field
validateField(fieldName) ==
  \A i \in DOMAIN FieldRules[fieldName] :
    Validator(FieldRules[fieldName][i], formValues[fieldName])

\* validateForm(): every field is touched and validated
validateForm ==
  [f \in Range(FieldNames) |-> [valid |-> validateField(f), touched |-> TRUE]]

\* getFormData
getFormData == formValues

\* setupFields, and the reset of handleSuccess
FreshFields == [f \in Range(FieldNames) |-> [valid |-> FALSE, touched |-> FALSE]]

FormStart(values) ==
  /\ formValues = values
  /\ fields = FreshFields
  /\ isSubmitting = FALSE
  /\ formLoading = FALSE
  /\ requests = <<>>
  /\ lastSubmit = NoSubmit
  /\ submitCount = 0
  /\ pendingRequests = 0
  /\ button = ButtonStart
  /\ datasetOriginalText = ""
  /\ loadingTimers = <<>>

FormInit == FormStart(DefaultValues)

\* the user types into an input (validateOnInput is off)
Input(f, v) ==
  /\ formValues[f] # v
  /\ formValues' = [formValues EXCEPT ![f] = v]
  /\ UNCHANGED <<fields, isSubmitting, formLoading, requests, lastSubmit, submitCount,
                 pendingRequests, button, datasetOriginalText, loadingTimers>>

\* "if (this.isSubmitting) return" of the submit listener
SubmitGuardOff(submitting) == FALSE

SubmitGuard(submitting) == submitting

\* submit listener of AnimationController.setupLoadingStates, registered
\* first: the button after it
LoadingStateButton ==
  IF ~button.loading
    THEN [disabled |-> TRUE, loading |-> TRUE, label |-> EnviandoLabel]
    ELSE button

\* showLoading
showLoading(b) == [disabled |-> TRUE, loading |-> TRUE, label |-> SendingLabel]

\* hideLoading
hideLoading(b) ==
  [disabled |-> FALSE, loading |-> FALSE,
   label |-> IF datasetOriginalText # "" THEN datasetOriginalText ELSE b.label]

\* a submit event: the listener of setupLoadingStates, then the listener of
\* setupSubmitHandler up to the fetch of submitToFormSubmit
Submit ==
  /\ submitCount < MaxSubmits
  /\ submitCount' = submitCount + 1
  /\ loadingTimers' = IF ~button.loading THEN Append(loadingTimers, button.label)
                      ELSE loadingTimers
  /\ IF SubmitGuard(isSubmitting)
       THEN /\ lastSubmit' = [data |-> formValues, outcome |-> "ignored"]
            /\ button' = LoadingStateButton
            /\ UNCHANGED <<fields, isSubmitting, formLoading, requests, pendingRequests,
                           datasetOriginalText>>
     ELSE LET checked == validateForm
          IN /\ fields' = checked
             /\ IF \E f \in Range(FieldNames) : ~checked[f].valid
                  THEN /\ lastSubmit' = [data |-> formValues, outcome |-> "blocked"]
                       /\ button' = LoadingStateButton
                       /\ UNCHANGED <<isSubmitting, formLoading, requests,
                                      pendingRequests, datasetOriginalText>>
                  ELSE /\ isSubmitting' = TRUE
                       /\ formLoading' = TRUE
                       /\ datasetOriginalText' =
                            IF datasetOriginalText = "" THEN LoadingStateButton.label
                            ELSE datasetOriginalText
                       /\ button' = showLoading(LoadingStateButton)
                       /\ requests' = Append(requests, getFormData)
                       /\ pendingRequests' = pendingRequests + 1
                       /\ lastSubmit' = [data |-> formValues, outcome |-> "sent"]
  /\ UNCHANGED formValues

\* the relay answers with response.ok: handleSuccess, then the finally block
ResponseOk ==
  /\ pendingRequests > 0
  /\ pendingRequests' = pendingRequests - 1
  /\ formValues' = DefaultValues
  /\ fields' = FreshFields
  /\ isSubmitting' = FALSE
  /\ formLoading' = FALSE
  /\ button' = hideLoading(button)
  /\ UNCHANGED <<requests, lastSubmit, submitCount, datasetOriginalText, loadingTimers>>

\* the relay answers with an error status, or the fetch rejects:
\* handleError, then the finally block
ResponseFails ==
  /\ pendingRequests > 0
  /\ pendingRequests' = pendingRequests - 1
  /\ isSubmitting' = FALSE
  /\ formLoading' = FALSE
  /\ button' = hideLoading(button)
  /\ UNCHANGED <<formValues, fields, requests, lastSubmit, submitCount,
                 datasetOriginalText, loadingTimers>>

\* the 2000 ms timer of setupLoadingStates fires
LoadingTimerFires ==
  /\ loadingTimers # <<>>
  /\ button' = [disabled |-> FALSE, loading |-> FALSE, label |-> Head(loadingTimers)]
  /\ loadingTimers' = Tail(loadingTimers)
  /\ UNCHANGED <<formValues, fields, isSubmitting, formLoading, requests, lastSubmit,
                 submitCount, pendingRequests, datasetOriginalText>>

FormNext ==
  \/ \E f \in Range(FieldNames) : \E v \in FieldTexts[f] : Input(f, v)
  \/ Submit
  \/ ResponseOk
  \/ ResponseFails
  \/ LoadingTimerFires


\* ========================================================================
\* Service worker updates (registration code of the page, install / activate
\* / message listeners of the worker)
\* ========================================================================
NoWorker == [version |-> 0, state |-> "none"]

VARIABLES
  swController,       \* version of the worker controlling the page
  swWorker,           \* the newest worker of the registration: [version, state]
  skipWaitingFlag,    \* the newest worker has called self.skipWaiting()
  swMessages,         \* 'skipWaiting' messages posted to the worker, not yet handled
  messageSent,        \* a page has posted 'skipWaiting' to the newest worker
  updateNotification, \* the "Update Available" notification is in the document
  swRegistration,     \* window.swRegistration is set
  refreshing,         \* the page's refreshing flag
  controllerChanges,  \* per controllerchange event: whether the message had been sent
  pageLoads           \* loads of the page so far

updVars == <<swController, swWorker, skipWaitingFlag, swMessages, messageSent,
             updateNotification, swRegistration, refreshing, controllerChanges, pageLoads>>

\* the page is open and controlled by version 1; no update has been found
UpdStart(version) ==
  /\ swController = version
  /\ swWorker = NoWorker
  /\ skipWaitingFlag = FALSE
  /\ swMessages = 0
  /\ messageSent = FALSE
  /\ updateNotification = FALSE
  /\ swRegistration = FALSE
  /\ refreshing = FALSE
  /\ controllerChanges = <<>>
  /\ pageLoads = 1

UpdInit == UpdStart(1)

\* registration.update() finds a new service-worker.js: 'updatefound'
UpdateFound ==
  /\ swWorker.state \in {"none", "activated", "redundant"}
  /\ swController < 1 + MaxUpdates
  /\ swWorker' = [version |-> swController + 1, state |-> "installing"]
  /\ skipWaitingFlag' = FALSE
  /\ messageSent' = FALSE
  /\ swMessages' = 0
  /\ UNCHANGED <<swController, updateNotification, swRegistration, refreshing,
                 controllerChanges, pageLoads>>

\* 'install' listener: both cache.addAll settle, then self.skipWaiting() is
\* called; the worker becomes 'installed' and the page's statechange
\* listener shows the update notification
InstallSucceeds ==
  /\ swWorker.state = "installing"
  /\ swWorker' = [swWorker EXCEPT !.state = "installed"]
  /\ skipWaitingFlag' = TRUE
  /\ updateNotification' = (updateNotification \/ swController # 0)
  /\ swRegistration' = (swRegistration \/ swController # 0)
  /\ UNCHANGED <<swController, swMessages, messageSent, refreshing, controllerChanges,
                 pageLoads>>

\* 'install' listener: cache.addAll(STATIC_ASSETS) rejects, the install fails
InstallFails ==
  /\ swWorker.state = "installing"
  /\ swWorker' = [swWorker EXCEPT !.state = "redundant"]
  /\ UNCHANGED <<swController, skipWaitingFlag, swMessages, messageSent,
                 updateNotification, swRegistration, refreshing, controllerChanges,
                 pageLoads>>

\* updateServiceWorker(): the user presses "Update Now"
UpdateNow ==
  /\ updateNotification
  /\ swRegistration /\ swWorker.state = "installed"
  /\ swMessages < MaxUpdates
  /\ swMessages' = swMessages + 1
  /\ messageSent' = TRUE
  /\ UNCHANGED <<swController, swWorker, skipWaitingFlag, updateNotification,
                 swRegistration, refreshing, controllerChanges, pageLoads>>

\* the close button of the notification
CloseNotification ==
  /\ updateNotification
  /\ updateNotification' = FALSE
  /\ UNCHANGED <<swController, swWorker, skipWaitingFlag, swMessages, messageSent,
                 swRegistration, refreshing, controllerChanges, pageLoads>>

\* 'message' listener, action 'skipWaiting'
SkipWaitingMessage ==
  /\ swMessages > 0
  /\ swMessages' = swMessages - 1
  /\ skipWaitingFlag' = TRUE
  /\ UNCHANGED <<swController, swWorker, messageSent, updateNotification,
                 swRegistration, refreshing, controllerChanges, pageLoads>>

\* an installed worker whose skip-waiting flag is set is activated while the
\* page is open: 'activate' listener, clients.claim(), and the page's
\* 'controllerchange' listener
Activate ==
  /\ swWorker.state = "installed"
  /\ skipWaitingFlag
  /\ swWorker' = [swWorker EXCEPT !.state = "activated"]
  /\ swController' = swWorker.version
  /\ controllerChanges' = Append(controllerChanges, messageSent)
  /\ refreshing' = TRUE
  /\ UNCHANGED <<skipWaitingFlag, swMessages, messageSent, updateNotification,
                 swRegistration, pageLoads>>

\* window.location.reload() of the controllerchange listener takes effect
PageReloads ==
  /\ refreshing
  /\ refreshing' = FALSE
  /\ updateNotification' = FALSE
  /\ swRegistration' = FALSE
  /\ pageLoads' = pageLoads + 1
  /\ UNCHANGED <<swController, swWorker, skipWaitingFlag, swMessages, messageSent,
                 controllerChanges>>

UpdNext ==
  \/ UpdateFound
  \/ InstallSucceeds
  \/ InstallFails
  \/ UpdateNow
  \/ CloseNotification
  \/ SkipWaitingMessage
  \/ Activate
  \/ PageReloads


\* ========================================================================
\* ProjectModal
\* ========================================================================
\* projects the page opens the modal with: number of gallery images of each
ProjectImages == [p \in {"portfolio", "api"} |-> IF p = "portfolio" THEN 2 ELSE 1]

NoProject == "null"

VARIABLES
  isOpen,             \* this.isOpen
  currentProject,     \* this.currentProject
  currentImageIndex,  \* this.currentImageIndex
  modalClearTimers,   \* pending timers of close() that clear currentProject
  modalErrors,        \* TypeErrors thrown by gallery navigation so far
  modalOps            \* open, close and navigation events so far

modalVars == <<isOpen, currentProject, currentImageIndex, modalClearTimers, modalErrors,
               modalOps>>

\* constructor
ModalStart(open) ==
  /\ isOpen = open
  /\ currentProject = NoProject
  /\ currentImageIndex = 0
  /\ modalClearTimers = 0
  /\ modalErrors = 0
  /\ modalOps = 0

ModalInit == ModalStart(FALSE)

ModalOp == modalOps < MaxModalOps /\ modalOps' = modalOps + 1

\* open(projectData), from a click on a project card
ModalOpen(p) ==
  /\ ModalOp
  /\ currentProject' = p
  /\ currentImageIndex' = 0
  /\ isOpen' = TRUE
  /\ UNCHANGED <<modalClearTimers, modalErrors>>

\* close(): close button, overlay click or Escape
ModalClose ==
  /\ ModalOp
  /\ isOpen
  /\ isOpen' = FALSE
  /\ modalClearTimers' = modalClearTimers + 1
  /\ UNCHANGED <<currentProject, currentImageIndex, modalErrors>>

\* setTimeout(() => { this.currentProject = null; }, 300)
ModalClearTimer ==
  /\ modalClearTimers > 0
  /\ modalClearTimers' = modalClearTimers - 1
  /\ currentProject' = NoProject
  /\ UNCHANGED <<isOpen, currentImageIndex, modalErrors, modalOps>>

\* nextImage() / previousImage() followed by showImage, from the gallery
\* buttons or the arrow keys while the modal is open; step is 1 or -1
GalleryStep(step) ==
  /\ ModalOp
  /\ isOpen
  /\ IF currentProject = NoProject
       THEN /\ modalErrors' = modalErrors + 1
            /\ UNCHANGED currentImageIndex
       ELSE LET n == ProjectImages[currentProject]
            IN /\ currentImageIndex' = (currentImageIndex + step + n) % n
               /\ UNCHANGED modalErrors
  /\ UNCHANGED <<isOpen, currentProject, modalClearTimers>>

ModalNext ==
  \/ \E p \in DOMAIN ProjectImages : ModalOpen(p)
  \/ ModalClose
  \/ ModalClearTimer
  \/ \E step \in {1, -1} : GalleryStep(step)


\* ========================================================================
\* App.deferNonCriticalInit
\* ========================================================================
\* the initializers initNonCritical awaits, in order
NonCriticalModules ==
  <<"animations", "projectModal", "formHandler", "performanceMonitor", "analytics">>

\* how the initialization of a module can go: "ok", its class is not loaded
\* ("missing"), or its constructor or init() throws ("threw")
ModuleOutcomes == {"ok", "missing", "threw"}

VARIABLES
  deferredState,       \* initNonCritical: "scheduled", "running", "communication", "finished" or "rejected"
  nextModule,          \* index of the initializer initNonCritical awaits next
  moduleOutcome,       \* outcome of each initializer run so far, "pending" otherwise
  modules,             \* this.modules: the modules constructed
  communicationSetup   \* setupModuleCommunication has run

appVars == <<deferredState, nextModule, moduleOutcome, modules, communicationSetup>>

\* deferNonCriticalInit has scheduled initNonCritical
AppStart(state) ==
  /\ deferredState = state
  /\ nextModule = 1
  /\ moduleOutcome = [m \in Range(NonCriticalModules) |-> "pending"]
  /\ modules = {}
  /\ communicationSetup = FALSE

AppInit == AppStart("scheduled")

\* the idle callback (or the timer) runs initNonCritical
RunDeferred ==
  /\ deferredState = "scheduled"
  /\ deferredState' = "running"
  /\ UNCHANGED <<nextModule, moduleOutcome, modules, communicationSetup>>

\* whether the initializer of module m lets an error escape: only
\* initializeAnimations rethrows from its catch block
InitializerThrows(m, outcome) ==
  m = "animations" /\ outcome \in {"missing", "threw"}

\* await this.initialize<Module>()
InitializeModule(outcome) ==
  /\ deferredState = "running"
  /\ LET m == NonCriticalModules[nextModule]
     IN /\ moduleOutcome' = [moduleOutcome EXCEPT ![m] = outcome]
        /\ modules' = IF outcome = "ok" THEN modules \cup {m} ELSE modules
        /\ deferredState' = IF InitializerThrows(m, outcome) THEN "rejected"
                            ELSE IF nextModule = Len(NonCriticalModules)
                              THEN "communication"
                            ELSE "running"
        /\ nextModule' = IF InitializerThrows(m, outcome) THEN nextModule
                         ELSE nextModule + 1
  /\ UNCHANGED communicationSetup

\* this.setupModuleCommunication()
SetupModuleCommunication ==
  /\ deferredState = "communication"
  /\ communicationSetup' = TRUE
  /\ deferredState' = "finished"
  /\ UNCHANGED <<nextModule, moduleOutcome, modules>>

AppNext ==
  \/ RunDeferred
  \/ \E outcome \in ModuleOutcomes : InitializeModule(outcome)
  \/ SetupModuleCommunication


\* ------------------------------------------------------------------------
\* Claims about the service worker
\* ------------------------------------------------------------------------
IsHttpUrl(r) == UrlProtocol(Href(r.url)) \in {<<"h","t","t","p",":">>, <<"h","t","t","p","s",":">>}

InStaticAllowlist(r) ==
  UrlPathname(Href(r.url)) \in Range(STATIC_ASSETS) \/ Href(r.url) \in Range(EXTERNAL_ASSETS)

InLocaleAllowlist(r) == UrlPathname(Href(r.url)) \in Range(DYNAMIC_ASSETS)

IsImage(r) ==
  r.destination = "image" \/ \E e \in ImageExtensions : EndsWith(UrlPathname(Href(r.url)), e)

IsApi(r) == Includes(UrlPathname(Href(r.url)), <<"/","a","p","i","/">>)

\* the rule of the claim's list that applies first to each request, 0 for a
\* request that must not be intercepted
FirstRule ==
  [r \in Requests |->
     IF r.method # "GET" \/ ~IsHttpUrl(r) THEN 0
     ELSE IF InStaticAllowlist(r) THEN 1
     ELSE IF InLocaleAllowlist(r) THEN 2
     ELSE IF IsImage(r) THEN 3
     ELSE IF IsApi(r) THEN 4
     ELSE 5]

RuleStrategy ==
  [n \in 0..5 |->
     CASE n = 0 -> <<"none", "">>
       [] n = 1 -> <<"cacheFirst", CACHE_NAME>>
       [] n = 2 -> <<"networkFirst", CACHE_NAME_DYNAMIC>>
       [] n = 3 -> <<"cacheFirst", CACHE_NAME_IMAGES>>
       [] n = 4 -> <<"networkOnly", "">>
       [] n = 5 -> <<"networkFirst", CACHE_NAME_DYNAMIC>>]

\* C1: every GET request with an http(s) URL is answered by exactly one
\* strategy, the one of the first matching rule in the order static/external
\* allowlist (cache-first, static cache), locale allowlist (network-first,
\* dynamic cache), image (cache-first, image cache), '/api/' (network-only),
\* anything else (network-first, dynamic cache); non-GET requests and
\* non-http(s) URLs are never intercepted.
C1_DispatchOrder ==
  \A h \in DOMAIN handlers :
    <<handlers[h].strategy, handlers[h].cacheName>> = RuleStrategy[FirstRule[handlers[h].request]]

\* an image under /api/ was dispatched together with a request that is not intercepted
C1_Witness ==
  /\ \E h \in DOMAIN handlers :
       /\ handlers[h].request.url = UrlId(Origin \o <<"/","a","p","i","/","p","h","o","t","o",".","p","n","g">>)
       /\ handlers[h].strategy = "cacheFirst"
  /\ \E h \in DOMAIN handlers : handlers[h].strategy = "none"

\* C2: cacheFirst returns the cached match without issuing any fetch whenever
\* one exists, and issues a fetch only after a cache miss.
C2_CacheFirstOrder ==
  \A h \in DOMAIN handlers :
    handlers[h].strategy = "cacheFirst" =>
      /\ handlers[h].firstMatch = "hit" =>
           /\ handlers[h].fetches = 0
           /\ handlers[h].pc = "done"
           /\ handlers[h].response = [src |-> "cache", url |-> handlers[h].request.url]
      /\ handlers[h].fetches > 0 => handlers[h].firstMatch = "miss"

\* one cacheFirst call was answered from the cache, another went to the network after a miss
C2_Witness ==
  /\ \E h \in DOMAIN handlers :
       /\ handlers[h].strategy = "cacheFirst"
       /\ handlers[h].firstMatch = "hit"
       /\ handlers[h].response.src = "cache"
  /\ \E h \in DOMAIN handlers :
       /\ handlers[h].strategy = "cacheFirst"
       /\ handlers[h].firstMatch = "miss"
       /\ handlers[h].response.src = "network"

SWQuiescent ==
  /\ \A h \in DOMAIN handlers : handlers[h].pc = "done"
  /\ pendingPuts = {}
  /\ pendingLimits = {}

\* C12: once the handling of the requests has finished, the image cache
\* holds at most 50 entries and the dynamic cache at most 30.
C12_CacheLimits ==
  SWQuiescent =>
    /\ Len(caches[CACHE_NAME_IMAGES]) <= MAX_CACHE_SIZE.images
    /\ Len(caches[CACHE_NAME_DYNAMIC]) <= MAX_CACHE_SIZE.dynamic

\* ------------------------------------------------------------------------
\* Claims about I18nManager
\* ------------------------------------------------------------------------
\* the value at the path segs of a parsed locale, Undefined when the path is missing
RECURSIVE PathValue(_, _)
PathValue(tree, segs) ==
  IF segs = <<>> THEN tree
  ELSE IF tree.kind = "obj" /\ Head(segs) \in DOMAIN tree.fields
    THEN PathValue(tree.fields[Head(segs)], Tail(segs))
  ELSE Undefined

\* C4: for every supported current language and every key, translate returns
\* the value at the dotted path in the current locale; when the path is
\* missing there, the default locale's value for it; and only when the
\* default locale lacks it too (or the current locale is the default) the
\* fallback if given, otherwise the key.
C4_TranslateLookup ==
  currentLang # Null =>
    \A key \in Keys, fb \in Fallbacks :
      LET here == PathValue(translations[currentLang], Split(key, "."))
          there == PathValue(translations[defaultLanguage], Split(key, "."))
      IN translate(key, fb, currentLang, translations) =
           IF here # Undefined THEN here
           ELSE IF currentLang # defaultLanguage /\ there # Undefined THEN there
           ELSE IF fb # <<>> THEN Str(fb)
           ELSE Str(key)

\* C10: when overlapping setLanguage calls have all completed, the current
\* language, the document's lang attribute and the translations applied to
\* the DOM all belong to the call whose locale load completed last.
C10_LastWriteWins ==
  ( /\ files = FullFiles
    /\ \A c \in DOMAIN calls : calls[c].pc = "done"
    /\ \E c \in DOMAIN calls : calls[c].overlaps
    /\ lastCompleted # 0 )
  => /\ currentLang = calls[lastCompleted].lang
     /\ docLang = calls[lastCompleted].lang
     /\ \A k \in DomKeys : dom[k].by = lastCompleted
     /\ docTitle.by = lastCompleted

\* C14: once a setLanguage call has returned true, the translations of the
\* current language are loaded, also when the requested locale failed to
\* load and the default locale was loaded in its place.
C14_CurrentLanguageLoaded ==
  (\E c \in DOMAIN calls : calls[c].result = "true") =>
    translations[currentLang] # Undefined

\* ------------------------------------------------------------------------
\* Claims about AnalyticsManager
\* ------------------------------------------------------------------------
\* C5: with cookie consent required, the Google Analytics script is injected
\* and gtag is called (config or event) only in states where the user's
\* consent is currently granted.
C5_ConsentBeforeGA ==
  gaConfig.cookieConsent =>
    /\ \A i \in DOMAIN scripts : scripts[i].consent
    /\ \A i \in DOMAIN dataLayer :
         dataLayer[i].cmd \in {"config", "event"} => dataLayer[i].consent

\* C6: the user's choice is persisted in localStorage as 'accepted' after the
\* user accepts and 'denied' after the user declines, and that value is what
\* a later page load reads back.
C6_PersistedChoice ==
  /\ lastChoice = "accepted" => storage = "accepted"
  /\ lastChoice = "denied" => storage = "denied"

\* names of the gtag('event', name) calls of a part of dataLayer, in order
EventNames(calls_) ==
  LET events == SelectSeq(calls_, LAMBDA c : c.cmd = "event")
  IN [i \in 1..Len(events) |-> events[i].name]

\* C11: when initialization completes, the events queued before it, and the
\* page_view tracked during it, are delivered to gtag in the order they were
\* tracked; none is lost.
C11_QueuedEventsDelivered ==
  [][(~initialized /\ initialized') =>
       EventNames(SubSeq(dataLayer', Len(dataLayer) + 1, Len(dataLayer')))
         = queue \o <<"page_view">>]_gaVars

\* C18: on one page the Google Analytics script is injected at most once and
\* the automatic tracking listeners are registered at most once.
C18_SetUpOnce ==
  /\ Len(scripts) <= 1
  /\ trackingSetups <= 1


\* ------------------------------------------------------------------------
\* Claims about the build script
\* ------------------------------------------------------------------------
\* the hashed path the last build recorded for a configured file
HashedOf(p) ==
  LET i == CHOOSE i \in DOMAIN assetMap : assetMap[i][1] = p IN assetMap[i][2]

AllProcessed == \A p \in ConfiguredFiles : \E i \in DOMAIN assetMap : assetMap[i][1] = p

\* <link href> and <script src> values the smoke test takes for local assets
LinkedAssets(html) ==
  {html[n].value : n \in {m \in DOMAIN html :
      /\ html[m].kind \in {"link", "script", "canonical"}
      /\ (StartsWith(html[m].value, <<"c","s","s","/">>) \/ StartsWith(html[m].value, <<"j","s","/">>))}}

\* C7: after a build in which every configured CSS and JS file was processed,
\* every occurrence of a configured source path in index.html has been
\* replaced by its hashed output path, and every css/ or js/ asset referenced
\* by a link or script tag of dist/index.html exists in dist.
C7_IndexPointsToHashedAssets ==
  (buildStatus # "none" /\ AllProcessed) =>
    /\ \A n \in DOMAIN distHtml :
         /\ \A p \in ConfiguredFiles : ~Includes(distHtml[n].value, p)
         /\ indexHtml[n].value \in ConfiguredFiles
              => distHtml[n].value = HashedOf(indexHtml[n].value)
    /\ \A a \in LinkedAssets(distHtml) : PathJoin(outputDir, a) \in dist

\* C8: each minified file is written to dist as <dir>/<base>.<hash><ext>
\* with <hash> the first 8 hex digits of the MD5 of the minified content;
\* the same path and content give the same name in every build, and a
\* different hash gives a different name.
C8_HashedNames ==
  /\ \A r \in written :
       LET dot == LastIndexOf(r.path, ".")
       IN /\ r.name = SubSeq(r.path, 1, dot - 1) \o <<".">>
                        \o SubSeq(Md5Hex(r.content), 1, 8)
                        \o SubSeq(r.path, dot, Len(r.path))
          /\ r.out = <<"d","i","s","t","/">> \o r.name
  /\ \A r1, r2 \in written :
       r1.path = r2.path =>
         /\ r1.content = r2.content => r1.name = r2.name
         /\ SubSeq(Md5Hex(r1.content), 1, 8) # SubSeq(Md5Hex(r2.content), 1, 8)
              => r1.name # r2.name

\* two builds wrote one file under the same name and another, edited in
\* between, under two names
C8_Witness ==
  /\ \E r1, r2 \in written :
       r1.build # r2.build /\ r1.path = r2.path /\ r1.name = r2.name
  /\ \E r1, r2 \in written :
       r1.build # r2.build /\ r1.path = r2.path /\ r1.name # r2.name


\* ------------------------------------------------------------------------
\* Claims about the contact form
\* ------------------------------------------------------------------------
RequiredFields == {"name", "email", "subject", "message"}

NotBlank(v) == \E i \in 1..Len(v) : v[i] # " "

\* local@domain.tld: one "@", a non-empty local part, and after the "@" a
\* "." with text on both sides; no blanks anywhere
MatchesEmail(v) ==
  LET parts == Split(v, "@")
  IN /\ Len(parts) = 2
     /\ parts[1] # <<>>
     /\ \A i \in 1..Len(v) : v[i] # " "
     /\ \E i \in 2..(Len(parts[2]) - 1) : parts[2][i] = "."

PassesRules(data) ==
  /\ \A f \in RequiredFields : NotBlank(data[f])
  /\ MatchesEmail(data["email"])

\* C9: a request is posted to the relay only if, at submit time, every
\* required field is non-blank after trimming and the email value matches
\* local@domain.tld; a submit event with a field that fails a rule is blocked
\* and sends nothing.
C9_PostOnlyIfValid ==
  /\ \A i \in DOMAIN requests : PassesRules(requests[i])
  /\ ~PassesRules(lastSubmit.data) => lastSubmit.outcome # "sent"
  /\ lastSubmit.outcome = "sent" => requests[Len(requests)] = lastSubmit.data

\* one submission was posted, and a later one with every required field
\* filled but a malformed email was blocked
C9_Witness ==
  /\ Len(requests) > 0
  /\ lastSubmit.outcome = "blocked"
  /\ \A f \in RequiredFields : NotBlank(lastSubmit.data[f])
  /\ ~MatchesEmail(lastSubmit.data["email"])


\* C17: at most one submission is in flight at any time, a submit event that
\* arrives while isSubmitting is true sends no request, and isSubmitting is
\* false again once the relay request has ended, whatever its outcome.
C17_OneSubmissionInFlight ==
  /\ pendingRequests <= 1
  /\ isSubmitting <=> pendingRequests = 1
  /\ lastSubmit.outcome = "ignored" => Len(requests) < submitCount

\* a submit event was ignored while a request was in flight, and that
\* request has since ended with isSubmitting false again
C17_Witness ==
  /\ lastSubmit.outcome = "ignored"
  /\ Len(requests) = 1
  /\ pendingRequests = 0
  /\ ~isSubmitting

\* no request is in flight and no timer is pending after some submission
FormSettled ==
  /\ Len(requests) > 0
  /\ pendingRequests = 0
  /\ ~isSubmitting
  /\ loadingTimers = <<>>

\* C16: after a submission has finished and every pending timer has fired,
\* the submit button is enabled, not in the loading state and shows the
\* label it had before the first submission.
C16_ButtonRestored ==
  FormSettled => button = ButtonStart

\* ------------------------------------------------------------------------
\* Claims about service worker updates
\* ------------------------------------------------------------------------
\* C13: a new worker version takes control of the open page, and the page
\* reloads, only after a page has sent it the 'skipWaiting' message.
C13_WaitsForSkipWaitingMessage ==
  \A i \in DOMAIN controllerChanges : controllerChanges[i]


\* ------------------------------------------------------------------------
\* Claims about the project modal
\* ------------------------------------------------------------------------
\* C15: whenever the modal is open its currentProject is non-null, so
\* gallery navigation while it is open never dereferences a null project.
C15_OpenModalHasProject ==
  /\ isOpen => currentProject # NoProject
  /\ modalErrors = 0


\* ------------------------------------------------------------------------
\* Claims about the App's deferred initialization
\* ------------------------------------------------------------------------
\* C19: the failure of one non-critical module does not prevent the modules
\* after it from being initialized nor setupModuleCommunication from running:
\* the chain never stops early, and when it has ended every initializer has
\* run and the communication is set up.
C19_FailuresAreIsolated ==
  /\ deferredState # "rejected"
  /\ deferredState = "finished" =>
       /\ \A m \in Range(NonCriticalModules) : moduleOutcome[m] # "pending"
       /\ communicationSetup


\* ========================================================================
\* Specifications
\* ========================================================================
vars == <<swVars, i18nVars, gaVars, buildVars, formVars, updVars, modalVars, appVars>>

\* the service worker handling fetch events
SpecSW ==
  /\ I18nStart(FullFiles) /\ GaStart(TRUE, TRUE, NoItem)
  /\ BuildStart(BaseHtml) /\ FormStart(DefaultValues) /\ UpdStart(1)
  /\ ModalStart(FALSE)
  /\ AppStart("scheduled")
  /\ SWInit
  /\ [][SWNext /\ UNCHANGED <<i18nVars, gaVars, buildVars, formVars, updVars, modalVars,
                    appVars>>]_vars

\* a page using I18nManager
SpecI18n ==
  /\ SWStart(InstalledCaches) /\ GaStart(TRUE, TRUE, NoItem)
  /\ BuildStart(BaseHtml) /\ FormStart(DefaultValues) /\ UpdStart(1)
  /\ ModalStart(FALSE)
  /\ AppStart("scheduled")
  /\ I18nInit
  /\ [][I18nNext /\ UNCHANGED <<swVars, gaVars, buildVars, formVars, updVars, modalVars,
                    appVars>>]_vars

\* a page using AnalyticsManager
SpecGA ==
  /\ SWStart(InstalledCaches) /\ I18nStart(FullFiles)
  /\ BuildStart(BaseHtml) /\ FormStart(DefaultValues) /\ UpdStart(1)
  /\ ModalStart(FALSE)
  /\ AppStart("scheduled")
  /\ GaInit
  /\ [][GaNext /\ UNCHANGED <<swVars, i18nVars, buildVars, formVars, updVars, modalVars,
                    appVars>>]_vars

\* runs of build.js over an edited working tree
SpecBuild ==
  /\ SWStart(InstalledCaches) /\ I18nStart(FullFiles)
  /\ GaStart(TRUE, TRUE, NoItem) /\ FormStart(DefaultValues)
  /\ UpdStart(1)
  /\ ModalStart(FALSE)
  /\ AppStart("scheduled")
  /\ BuildInit
  /\ [][BuildNext /\ UNCHANGED <<swVars, i18nVars, gaVars, formVars, updVars, modalVars,
                    appVars>>]_vars

\* a visitor using the contact form
SpecForm ==
  /\ SWStart(InstalledCaches) /\ I18nStart(FullFiles)
  /\ GaStart(TRUE, TRUE, NoItem) /\ BuildStart(BaseHtml)
  /\ UpdStart(1)
  /\ ModalStart(FALSE)
  /\ AppStart("scheduled")
  /\ FormInit
  /\ [][FormNext /\ UNCHANGED <<swVars, i18nVars, gaVars, buildVars, updVars, modalVars,
                    appVars>>]_vars

\* the service worker of a long-running installation, its runtime caches full
SpecSWFilled ==
  /\ I18nStart(FullFiles) /\ GaStart(TRUE, TRUE, NoItem)
  /\ BuildStart(BaseHtml) /\ FormStart(DefaultValues) /\ UpdStart(1)
  /\ ModalStart(FALSE)
  /\ AppStart("scheduled")
  /\ SWFilledInit
  /\ [][SWNext /\ UNCHANGED <<i18nVars, gaVars, buildVars, formVars, updVars, modalVars,
                    appVars>>]_vars

\* the page and a new version of its service worker
SpecUpd ==
  /\ SWStart(InstalledCaches) /\ I18nStart(FullFiles) /\ GaStart(TRUE, TRUE, NoItem)
  /\ BuildStart(BaseHtml) /\ FormStart(DefaultValues)
  /\ ModalStart(FALSE)
  /\ AppStart("scheduled")
  /\ UpdInit
  /\ [][UpdNext /\ UNCHANGED <<swVars, i18nVars, gaVars, buildVars, formVars, modalVars,
                    appVars>>]_vars

\* a visitor using the project modal
SpecModal ==
  /\ SWStart(InstalledCaches) /\ I18nStart(FullFiles) /\ GaStart(TRUE, TRUE, NoItem)
  /\ BuildStart(BaseHtml) /\ FormStart(DefaultValues) /\ UpdStart(1)
  /\ AppStart("scheduled")
  /\ ModalInit
  /\ [][ModalNext /\ UNCHANGED <<swVars, i18nVars, gaVars, buildVars, formVars, updVars,
                    appVars>>]_vars

\* the App's deferred initialization of the non-critical modules
SpecApp ==
  /\ SWStart(InstalledCaches) /\ I18nStart(FullFiles) /\ GaStart(TRUE, TRUE, NoItem)
  /\ BuildStart(BaseHtml) /\ FormStart(DefaultValues) /\ UpdStart(1)
  /\ ModalStart(FALSE)
  /\ AppInit
  /\ [][AppNext /\ UNCHANGED <<swVars, i18nVars, gaVars, buildVars, formVars, updVars,
                    modalVars>>]_vars

====
